---- MODULE Spec2Model ----
(***************************************************************************)
(* Connection resolution (metadata/utils/source_connections.py) and usage  *)
(* extraction (snowflake_usage.py, clickhouse_usage.py) of the ingestion   *)
(* framework.                                                              *)
(*                                                                         *)
(* Text is a sequence of one-character strings, so that percent-encoding   *)
(* and parsing are computed character by character.  An optional value is  *)
(* a sequence of length 0 (None) or 1 (the value).                         *)
(***************************************************************************)
EXTENDS Integers, Sequences, FiniteSets, TLC

VARIABLES
    given,      \* resolver: the descriptor as the configuration loader built it
    conn,       \* resolver: the descriptor object handed to the resolver
    urls,       \* resolver: results of the get_connection_url calls so far
    args,       \* resolver: results of the get_connection_args calls so far
    heap,       \* number of Session objects allocated so far (object identity)
    data,       \* row normalisation: the raw row handed to get_database
    fallback,   \* row normalisation: self.connection.database of the Snowflake source
    picked,     \* row normalisation: what get_database did with the row
    cls,        \* usage run: the source class create() is called on
    pc,         \* usage run: where the source and its row generator stand
    branch,     \* usage run: the branch line 78 took in the current run
    start,      \* usage run: the descriptor and the handle as the current run began
    engine,     \* usage run: self.engine, the handle currently held
    handles,    \* usage run: number of handles acquired so far
    results,    \* usage run: SHOW DATABASES rows not yet iterated
    enumerated, \* usage run: what SHOW DATABASES returned in the current run
    current,    \* usage run: row[1] of the database being ingested
    rows,       \* usage run: rows of the usage statement not yet yielded
    out,        \* usage run: the usage records of the current run, in yield order
    log,        \* usage run: the driver calls of the current run, in order
    err,        \* usage run: the step that raised, "" while none has
    runs        \* usage run: invocations of _get_raw_extract_iter so far

rvars == <<given, conn, urls, args, heap>>
dvars == <<data, fallback, picked>>
uvars == <<cls, pc, branch, start, engine, handles, results, enumerated, current, rows, out,
           log, err, runs>>
vars == <<rvars, dvars, uvars>>

\* ------------------------------------------------------------------ bounds

MaxCalls == 2       \* calls of each resolver function on one descriptor
MaxPwdLen == 1      \* length of the passwords drawn
MaxRowLen == 5      \* length of the database_name texts drawn
MaxOptions == 2     \* entries of the connectionOptions drawn
MaxDbs == 2         \* logical databases SHOW DATABASES enumerates
MaxRows == 2        \* rows one usage statement returns
MaxRuns == 2        \* invocations of _get_raw_extract_iter on one source

\* ------------------------------------------------------------------ text

None == <<>>
Some(v) == <<v>>

\* Python truthiness of an optional text / mapping / SecretStr (None, "" and {}
\* are falsy; SecretStr("") has length 0 and is falsy too).
Truthy(o) == o # None /\ o[1] # <<>>

\* str(x) as an f-string renders it: None renders as the text "None".
Str(o) == IF o = None THEN <<"N", "o", "n", "e">> ELSE o[1]

RECURSIVE Concat(_)
Concat(ss) == IF ss = <<>> THEN <<>> ELSE Head(ss) \o Concat(Tail(ss))

Count(s, ch) == Cardinality({i \in 1..Len(s) : s[i] = ch})

\* urllib.parse.quote_plus: unreserved characters are kept, a space becomes
\* "+", every other character becomes its %XX escape.
Unreserved == {"a", "b", "c", "d", "h", "k", "p", "u", "v", "w", "s", "x", "O", "D",
               "_", ".", "-", "~"}
quote_char(ch) ==
    CASE ch \in Unreserved -> <<ch>>
      [] ch = " " -> <<"+">>
      [] ch = "@" -> <<"%", "4", "0">>
      [] ch = "/" -> <<"%", "2", "F">>
      [] ch = "?" -> <<"%", "3", "F">>
      [] ch = "&" -> <<"%", "2", "6">>
      [] ch = "=" -> <<"%", "3", "D">>
      [] ch = ":" -> <<"%", "3", "A">>
      [] ch = "+" -> <<"%", "2", "B">>
      [] ch = "%" -> <<"%", "2", "5">>
      [] OTHER -> <<"%", "X", "X">>

RECURSIVE quote_plus(_)
quote_plus(s) == IF s = <<>> THEN <<>> ELSE quote_char(Head(s)) \o quote_plus(Tail(s))

\* "&".join(f"{key}={quote_plus(value)}" for (key, value) in options.items() if value)
RECURSIVE join_params(_, _)
join_params(items, first) ==
    IF items = <<>> THEN <<>>
    ELSE LET key == Head(items)[1]
             value == Head(items)[2]
         IN  IF value = <<>> THEN join_params(Tail(items), first)
             ELSE (IF first THEN <<>> ELSE <<"&">>) \o key \o <<"=">> \o quote_plus(value)
                  \o join_params(Tail(items), FALSE)

\* ------------------------------------------------------------------ descriptors

CommonVariants == {"MariaDBConnection", "PostgresConnection", "RedshiftConnection",
                   "MysqlConnection", "SalesforceConnection", "ClickhouseConnection",
                   "SingleStoreConnection", "Db2Connection", "VerticaConnection"}

OwnVariants == {"MssqlConnection", "OracleConnection", "SQLiteConnection",
                "TrinoConnection", "DatabricksConnection", "PrestoConnection",
                "SnowflakeConnection", "HiveConnection", "BigQueryConnection",
                "AzureSQLConnection", "AthenaConnection", "DruidConnection",
                "PinotDBConnection"}

SupportedVariants == CommonVariants \cup OwnVariants

\* A descriptor class the resolver registers no handler for.
UnsupportedVariants == {"GlueConnection"}

mssql_pyodbc == <<"o">>

\* A descriptor with every optional field unset.
Blank(variant, scheme) ==
    [variant |-> variant, scheme |-> scheme, hostPort |-> Some(<<"h">>),
     username |-> None, password |-> None, database |-> None,
     connectionOptions |-> None, connectionArguments |-> None,
     uriString |-> None, oracleServiceName |-> None, databaseMode |-> None,
     catalog |-> None, params |-> None, proxies |-> None, token |-> None,
     account |-> None, warehouse |-> None, authOptions |-> None,
     projectId |-> None, gcsProjectId |-> None, driver |-> None,
     awsAccessKeyId |-> None, awsSecretAccessKey |-> None, awsRegion |-> None,
     s3StagingDir |-> None, workgroup |-> None, pinotControllerHost |-> None]

\* ------------------------------------------------------------------ results

Ok(url) == [ok |-> TRUE, url |-> url, exc |-> "", msg |-> <<>>]
Raised(exc, msg) == [ok |-> FALSE, url |-> <<>>, exc |-> exc, msg |-> msg]

\* ------------------------------------------------------------------ shared builder

\* Lines 94-95 (and 239-240): a missing or empty password is replaced, in the
\* descriptor itself, by SecretStr("") once a username is present.
default_password(c) ==
    IF Truthy(c.username) /\ ~Truthy(c.password)
    THEN [c EXCEPT !.password = Some(<<>>)]
    ELSE c

\* Lines 92-101: the credential segment user:quote_plus(password)@ .
credentials(c) ==
    IF Truthy(c.username)
    THEN c.username[1] \o <<":">> \o quote_plus(default_password(c).password[1]) \o <<"@">>
    ELSE <<>>

\* Lines 106-117 (the same statements at 249-260 and 295-306): the options
\* are appended to whatever the url already holds.
append_options(c, url) ==
    IF Truthy(c.connectionOptions)
    THEN url \o (IF ~Truthy(c.database) THEN <<"/">> ELSE <<>>)
             \o <<"?">> \o join_params(c.connectionOptions[1], TRUE)
    ELSE url

get_connection_url_common(c) ==
    append_options(c,
        c.scheme \o <<":", "/", "/">> \o credentials(c) \o c.hostPort[1]
        \o (IF Truthy(c.database) THEN <<"/">> \o c.database[1] ELSE <<>>))

\* ------------------------------------------------------------------ handlers

\* Line 123: NotImplemented is the singleton constant, not an exception class;
\* calling it raises TypeError and the formatted message is discarded.
url_unregistered(c) ==
    Raised("TypeError", <<"'NotImplementedType' object is not callable">>)

url_mssql(c) ==
    IF c.scheme = mssql_pyodbc
    THEN Ok(c.scheme \o <<":", "/", "/">> \o Str(c.uriString))
    ELSE Ok(get_connection_url_common(c))

\* A slip: the assertion of line 152 left out.
url_oracle_unchecked(c) ==
    IF Truthy(c.oracleServiceName)
    THEN Ok(get_connection_url_common(c)
            \o <<"/", "?", "s", "e", "r", "v", "i", "c", "e", "_", "n", "a", "m", "e", "=">>
            \o c.oracleServiceName[1])
    ELSE Ok(get_connection_url_common(c))

url_oracle(c) ==
    IF Truthy(c.oracleServiceName)
    THEN IF Truthy(c.database)
         THEN Raised("AssertionError", <<>>)
         ELSE Ok(get_connection_url_common(c)
                 \o <<"/", "?", "s", "e", "r", "v", "i", "c", "e", "_", "n", "a", "m", "e", "=">>
                 \o c.oracleServiceName[1])
    ELSE Ok(get_connection_url_common(c))

url_sqlite(c) ==
    Ok(c.scheme \o <<":", "/", "/", "/">>
       \o (IF Truthy(c.databaseMode) THEN c.databaseMode[1]
           ELSE <<":", "m", "e", "m", "o", "r", "y", ":">>))

\* Lines 170-177 and 198-205: the Trino and Presto credential and address part.
catalog_address(c) ==
    c.scheme \o <<":", "/", "/">>
    \o (IF Truthy(c.username)
        THEN quote_plus(c.username[1])
             \o (IF Truthy(c.password) THEN <<":">> \o quote_plus(c.password[1]) ELSE <<>>)
             \o <<"@">>
        ELSE <<>>)
    \o Str(c.hostPort) \o <<"/">> \o Str(c.catalog)

url_trino(c) ==
    Ok(catalog_address(c)
       \o (IF c.params # None THEN <<"?">> \o join_params(c.params[1], TRUE) ELSE <<>>))

url_databricks(c) ==
    Ok(c.scheme \o <<":", "/", "/", "t", "o", "k", "e", "n", ":">> \o c.token[1] \o <<"@">>
       \o Str(c.hostPort)
       \o (IF Truthy(c.database) THEN <<"/">> \o c.database[1] ELSE <<>>))

url_presto(c) ==
    Ok(catalog_address(c)
       \o (IF Truthy(c.database)
           THEN <<"?", "s", "c", "h", "e", "m", "a", "=">> \o quote_plus(c.database[1])
           ELSE <<>>))

url_snowflake(c) ==
    Ok(append_options(c,
        c.scheme \o <<":", "/", "/">> \o credentials(c) \o c.account[1]
        \o (IF Truthy(c.database) THEN <<"/">> \o c.database[1] ELSE <<>>)
        \o (IF Truthy(c.warehouse)
            THEN <<"?", "w", "a", "r", "e", "h", "o", "u", "s", "e", "=">> \o c.warehouse[1]
            ELSE <<>>)))

url_hive(c) ==
    IF Truthy(c.authOptions)
    THEN Ok(get_connection_url_common(c) \o <<";">> \o c.authOptions[1])
    ELSE Ok(get_connection_url_common(c))

url_bigquery(c) ==
    LET project_id == IF Truthy(c.projectId) THEN c.projectId ELSE c.gcsProjectId
    IN  IF Truthy(project_id)
        THEN Ok(c.scheme \o <<":", "/", "/">> \o project_id[1])
        ELSE Ok(c.scheme \o <<":", "/", "/">>)

\* Line 289 reads connection.password.get_secret_value() with no default:
\* an unset password is None there.
url_azuresql(c) ==
    IF Truthy(c.username) /\ c.password = None
    THEN Raised("AttributeError", <<"'NoneType' object has no attribute 'get_secret_value'">>)
    ELSE Ok(append_options(c,
        c.scheme \o <<":", "/", "/">>
        \o (IF Truthy(c.username)
            THEN c.username[1] \o <<":">> \o c.password[1] \o <<"@">>
            ELSE <<>>)
        \o Str(c.hostPort)
        \o (IF Truthy(c.database) THEN <<"/">> \o quote_plus(c.database[1]) ELSE <<>>)
        \o <<"?", "d", "r", "i", "v", "e", "r", "=">> \o quote_plus(c.driver[1])))

url_athena(c) ==
    Ok(c.scheme \o <<":", "/", "/">>
       \o (IF Truthy(c.awsAccessKeyId)
           THEN c.awsAccessKeyId[1]
                \o (IF Truthy(c.awsSecretAccessKey)
                    THEN <<":">> \o c.awsSecretAccessKey[1] ELSE <<>>)
           ELSE <<":">>)
       \o <<"@", "a", "t", "h", "e", "n", "a", ".">> \o Str(c.awsRegion)
       \o <<".", "a", "m", "a", "z", "o", "n", "a", "w", "s", ".", "c", "o", "m", ":", "4", "4", "3">>
       \o (IF Truthy(c.database) THEN <<"/">> \o c.database[1] ELSE <<>>)
       \o <<"?", "s", "3", "_", "s", "t", "a", "g", "i", "n", "g", "_", "d", "i", "r", "=">>
       \o quote_plus(c.s3StagingDir[1])
       \o <<"&", "w", "o", "r", "k", "_", "g", "r", "o", "u", "p", "=">> \o Str(c.workgroup))

url_druid(c) ==
    Ok(get_connection_url_common(c) \o <<"/", "d", "r", "u", "i", "d", "/", "v", "2", "/", "s", "q", "l">>)

url_pinotdb(c) ==
    Ok(get_connection_url_common(c)
       \o <<"/", "q", "u", "e", "r", "y", "/", "s", "q", "l", "?",
            "c", "o", "n", "t", "r", "o", "l", "l", "e", "r", "=">>
       \o Str(c.pinotControllerHost))

\* functools.singledispatch on the descriptor's class.
get_connection_url(c) ==
    CASE c.variant \in CommonVariants -> Ok(get_connection_url_common(c))
      [] c.variant = "MssqlConnection" -> url_mssql(c)
      [] c.variant = "OracleConnection" -> url_oracle(c)
      [] c.variant = "SQLiteConnection" -> url_sqlite(c)
      [] c.variant = "TrinoConnection" -> url_trino(c)
      [] c.variant = "DatabricksConnection" -> url_databricks(c)
      [] c.variant = "PrestoConnection" -> url_presto(c)
      [] c.variant = "SnowflakeConnection" -> url_snowflake(c)
      [] c.variant = "HiveConnection" -> url_hive(c)
      [] c.variant = "BigQueryConnection" -> url_bigquery(c)
      [] c.variant = "AzureSQLConnection" -> url_azuresql(c)
      [] c.variant = "AthenaConnection" -> url_athena(c)
      [] c.variant = "DruidConnection" -> url_druid(c)
      [] c.variant = "PinotDBConnection" -> url_pinotdb(c)
      [] OTHER -> url_unregistered(c)

\* The variants whose handler runs the shared builder's (or Snowflake's own)
\* password default.
DefaultsPassword(c) ==
    \/ c.variant \in CommonVariants
    \/ c.variant \in {"OracleConnection", "HiveConnection", "DruidConnection",
                      "PinotDBConnection", "SnowflakeConnection"}
    \/ c.variant = "MssqlConnection" /\ c.scheme # mssql_pyodbc

\* A slip: line 95 (240) run after the credential segment is built and outside
\* the test of line 94 (239), so that every call blanks the password.
descriptor_after_url_blanked(c) ==
    IF DefaultsPassword(c) /\ Truthy(c.username) THEN [c EXCEPT !.password = Some(<<>>)] ELSE c

\* The descriptor as get_connection_url leaves it.
descriptor_after_url(c) == IF DefaultsPassword(c) THEN default_password(c) ELSE c

\* ------------------------------------------------------------------ driver arguments

\* A mapping is a sequence of entries with distinct keys.  An entry holds a
\* text value, or (session > 0) the Session object of that identity.
Entry(key, text) == [key |-> key, text |-> text, session |-> 0, proxies |-> None]
http_session == <<"http_session">>
SessionEntry(id, proxies) == [key |-> http_session, text |-> <<>>, session |-> id, proxies |-> proxies]

\* {**m, key: value}: the key keeps its place when m already has it.
Merge(m, e) ==
    IF \E i \in 1..Len(m) : m[i].key = e.key
    THEN [i \in 1..Len(m) |-> IF m[i].key = e.key THEN e ELSE m[i]]
    ELSE Append(m, e)

\* Lines 211-216.  The result is None or Some(mapping).
args_default(c, h) ==
    IF Truthy(c.connectionArguments) THEN c.connectionArguments ELSE Some(<<>>)

\* Lines 219-229.  h is the number of Session objects allocated before the call.
args_trino(c, h) ==
    IF Truthy(c.proxies)
    THEN IF Truthy(c.connectionArguments)
         THEN Some(Merge(c.connectionArguments[1], SessionEntry(h + 1, c.proxies)))
         ELSE Some(<<SessionEntry(h + 1, c.proxies)>>)
    ELSE c.connectionArguments

get_connection_args(c, h) ==
    IF c.variant = "TrinoConnection" THEN args_trino(c, h) ELSE args_default(c, h)

\* Line 222: Session() allocates one object per call that reaches it.
heap_after_args(c, h) ==
    IF c.variant = "TrinoConnection" /\ Truthy(c.proxies) THEN h + 1 ELSE h

\* ------------------------------------------------------------------ inputs

Min(a, b) == IF a < b THEN a ELSE b

PwdAlphabet == {"p", "@"}
RECURSIVE Texts(_, _)
Texts(alphabet, n) ==
    IF n = 0 THEN {<<>>}
    ELSE LET shorter == Texts(alphabet, n - 1)
         IN  shorter \cup {Append(t, ch) : t \in shorter, ch \in alphabet}

Users == {None, Some(<<"u">>)}
Passwords == {None} \cup {Some(t) : t \in Texts(PwdAlphabet, MaxPwdLen)}
Databases == {None, Some(<<"d">>)}
OptionItems == << <<<<"k">>, <<"v">>>>, <<<<"s">>, <<" ", "x">>>>, <<<<"w">>, <<>>>> >>
Options == {None} \cup {Some(SubSeq(OptionItems, 1, n)) : n \in 0..Min(MaxOptions, Len(OptionItems))}
Arguments == {None, Some(<<>>), Some(<<Entry(<<"a">>, <<"b">>)>>),
              Some(<<Entry(http_session, <<"b">>), Entry(<<"a">>, <<"b">>)>>)}
Extras == {None, Some(<<"x">>)}

SchemeOf(variant) ==
    CASE variant = "SQLiteConnection" -> <<"s">>
      [] variant = "TrinoConnection" -> <<"t">>
      [] variant = "SnowflakeConnection" -> <<"w">>
      [] OTHER -> <<"c">>

\* The descriptor of a variant with its required fields set and nothing else.
Minimal(variant, scheme) ==
    LET b == Blank(variant, scheme)
    IN  CASE variant \in {"TrinoConnection", "PrestoConnection"} -> [b EXCEPT !.catalog = Some(<<"c">>)]
          [] variant = "DatabricksConnection" -> [b EXCEPT !.token = Some(<<"k">>)]
          [] variant = "SnowflakeConnection" -> [b EXCEPT !.account = Some(<<"a">>)]
          [] variant = "AzureSQLConnection" -> [b EXCEPT !.driver = Some(<<"O", " ", "D">>)]
          [] variant = "AthenaConnection" ->
                [b EXCEPT !.awsRegion = Some(<<"u">>), !.s3StagingDir = Some(<<"s", "/">>),
                          !.workgroup = Some(<<"w">>)]
          [] variant = "PinotDBConnection" -> [b EXCEPT !.pinotControllerHost = Some(<<"h">>)]
          [] OTHER -> b

\* The fields every builder of the shared style reads.
SharedFields(variant, schemes) ==
    {[Minimal(variant, sch) EXCEPT !.username = u, !.password = p, !.database = d,
                                 !.connectionOptions = o]
        : sch \in schemes, u \in Users, p \in Passwords, d \in Databases, o \in Options}

\* The descriptors of one variant: the shared fields and the variant's own.
DescriptorsOf(variant) ==
    CASE variant \in CommonVariants \cup {"DruidConnection"} ->
            SharedFields(variant, {SchemeOf(variant)})
      [] variant = "MssqlConnection" ->
            {[c EXCEPT !.uriString = x]
                : c \in SharedFields(variant, {SchemeOf(variant), mssql_pyodbc}), x \in Extras}
      [] variant = "OracleConnection" ->
            {[c EXCEPT !.oracleServiceName = x]
                : c \in SharedFields(variant, {SchemeOf(variant)}), x \in Extras}
      [] variant = "SQLiteConnection" ->
            {[Minimal(variant, SchemeOf(variant)) EXCEPT !.databaseMode = x] : x \in Extras}
      [] variant = "TrinoConnection" ->
            {[Minimal(variant, SchemeOf(variant)) EXCEPT
                    !.username = u, !.password = p,
                    !.params = o, !.proxies = x, !.connectionArguments = a]
                : u \in Users, p \in Passwords, o \in Options, x \in Extras, a \in Arguments}
      [] variant = "PrestoConnection" ->
            {[Minimal(variant, SchemeOf(variant)) EXCEPT
                    !.username = u, !.password = p, !.database = d]
                : u \in Users, p \in Passwords, d \in Databases}
      [] variant = "DatabricksConnection" ->
            {[Minimal(variant, SchemeOf(variant)) EXCEPT !.database = d]
                : d \in Databases}
      [] variant = "SnowflakeConnection" ->
            {[c EXCEPT !.warehouse = x]
                : c \in SharedFields(variant, {SchemeOf(variant)}), x \in Extras}
      [] variant = "HiveConnection" ->
            {[c EXCEPT !.authOptions = x]
                : c \in SharedFields(variant, {SchemeOf(variant)}), x \in Extras}
      [] variant = "BigQueryConnection" ->
            {[Minimal(variant, SchemeOf(variant)) EXCEPT !.projectId = x, !.gcsProjectId = y]
                : x \in Extras, y \in Extras}
      [] variant = "AzureSQLConnection" ->
            SharedFields(variant, {SchemeOf(variant)})
      [] variant = "AthenaConnection" ->
            {[Minimal(variant, SchemeOf(variant)) EXCEPT
                    !.awsAccessKeyId = x, !.awsSecretAccessKey = y, !.database = d]
                : x \in Extras, y \in Extras, d \in Databases}
      [] variant = "PinotDBConnection" ->
            SharedFields(variant, {SchemeOf(variant)})
      [] OTHER -> {[Minimal(variant, SchemeOf(variant)) EXCEPT !.database = d] : d \in Databases}

\* The descriptors drawn: every variant with its url fields, and every variant
\* with each choice of connectionArguments.
Descriptors ==
    UNION {DescriptorsOf(v) : v \in SupportedVariants \cup UnsupportedVariants}
    \cup {[Minimal(v, SchemeOf(v)) EXCEPT !.connectionArguments = a]
              : v \in SupportedVariants \cup UnsupportedVariants, a \in Arguments}

NoConn == [variant |-> "none"]

\* ------------------------------------------------------------------ resolver

ResolverInit ==
    /\ given = NoConn
    /\ conn = NoConn
    /\ urls = <<>>
    /\ args = <<>>
    /\ heap = 0
    /\ data = [has |-> FALSE, database_name |-> None] /\ fallback = None
    /\ picked = [by |-> "none", ok |-> FALSE, v |-> [t |-> "None", s |-> <<>>, items |-> <<>>],
                 exc |-> "not called"]
    /\ cls = "none" /\ pc = "none" /\ branch = "none"
    /\ start = [conn |-> NoConn, handle |-> 0]
    /\ engine = [id |-> 0] /\ handles = 0
    /\ results = <<>> /\ enumerated = <<>> /\ current = None /\ rows = <<>>
    /\ out = <<>> /\ log = <<>> /\ err = "" /\ runs = 0

\* The configuration loader hands a validated descriptor over.
Load ==
    /\ conn = NoConn
    /\ \E c \in Descriptors : conn' = c /\ given' = c
    /\ UNCHANGED <<urls, args, heap, dvars, uvars>>

\* One call get_connection_url(conn): the result is recorded and the
\* descriptor is left as the handler leaves it.
CallUrl ==
    /\ conn # NoConn
    /\ Len(urls) < MaxCalls
    /\ urls' = Append(urls, get_connection_url(conn))
    /\ conn' = descriptor_after_url(conn)
    /\ UNCHANGED <<given, args, heap, dvars, uvars>>

\* One call get_connection_args(conn).
CallArgs ==
    /\ conn # NoConn
    /\ Len(args) < MaxCalls
    /\ args' = Append(args, get_connection_args(conn, heap))
    /\ heap' = heap_after_args(conn, heap)
    /\ UNCHANGED <<given, conn, urls, dvars, uvars>>

ResolverNext == Load \/ CallUrl \/ CallArgs

SpecResolver == ResolverInit /\ [][ResolverNext]_vars

\* ------------------------------------------------------------------ resolver claims

Loaded == given # NoConn
UrlCalls == 1..Len(urls)
ArgsCalls == 1..Len(args)

\* s occurs in t as a contiguous piece.
Contains(t, s) == \E i \in 0..(Len(t) - Len(s)) : SubSeq(t, i + 1, i + Len(s)) = s

\* C4 (as claimed): a descriptor of a variant with no registered handler makes
\* get_connection_url fail with the NotImplemented-class error whose message
\* carries the offending type, and no URI is returned.
C4_UnsupportedRaisesNotImplemented ==
    (Loaded /\ given.variant \in UnsupportedVariants) =>
        \A i \in UrlCalls :
            /\ ~urls[i].ok
            /\ urls[i].url = <<>>
            /\ urls[i].exc = "NotImplementedError"
            /\ \E j \in 1..Len(urls[i].msg) : urls[i].msg[j] = given.variant

\* Two driver-argument results agree entry by entry, but for the identity of
\* the Session object held under http_session.
SameButSession(a, b) ==
    \/ a = None /\ b = None
    \/ /\ a # None /\ b # None /\ Len(a[1]) = Len(b[1])
       /\ \A i \in 1..Len(a[1]) :
            /\ a[1][i].key = b[1][i].key
            /\ a[1][i].text = b[1][i].text
            /\ a[1][i].proxies = b[1][i].proxies
            /\ \/ a[1][i].session = b[1][i].session
               \/ a[1][i].key = http_session /\ a[1][i].session > 0 /\ b[1][i].session > 0

TrinoWithProxies == given.variant = "TrinoConnection" /\ Truthy(given.proxies)

\* C5 (as claimed): calling get_connection_url and get_connection_args twice on the
\* same descriptor yields identical uri and identical driverArgs.
C5_ResolveTwiceIdentical ==
    /\ Len(urls) >= 2 => urls[1] = urls[2]
    /\ Len(args) >= 2 => args[1] = args[2]

\* C5 (amended): two calls yield identical uri for every variant, and identical
\* driverArgs for every variant but Trino with proxies, whose two results agree
\* on everything but the identity of the Session held under http_session.
C5_ResolveTwiceSameButSession ==
    /\ \A i \in UrlCalls, j \in UrlCalls : urls[i] = urls[j]
    /\ \A i \in ArgsCalls, j \in ArgsCalls :
         /\ SameButSession(args[i], args[j])
         /\ ~TrinoWithProxies => args[i] = args[j]

\* Both functions called twice, on a descriptor whose password the first url
\* call defaulted, and on a Trino descriptor with proxies.
C5_Witness ==
    /\ Len(urls) = 2 /\ Len(args) = 2
    /\ \/ TrinoWithProxies /\ args[1] # args[2]
       \/ Loaded /\ conn # given /\ urls[1].ok

SharedStyle(c) == DefaultsPassword(c) \/ c.variant = "AzureSQLConnection"
OracleContractBroken(c) ==
    c.variant = "OracleConnection" /\ Truthy(c.oracleServiceName) /\ Truthy(c.database)

\* C6 (as claimed): for every shared-builder dialect, Snowflake and Azure SQL, a
\* username with no password resolves, without failing, to a URI whose credential
\* segment is user:@ .
C6_EmptyPasswordSegment ==
    (Loaded /\ SharedStyle(given) /\ ~OracleContractBroken(given)
        /\ Truthy(given.username) /\ given.password = None) =>
        \A i \in UrlCalls :
            /\ urls[i].ok
            /\ Contains(urls[i].url, <<"/">> \o given.username[1] \o <<":", "@">>)
            /\ ~Contains(urls[i].url, given.username[1] \o <<"@">>)

ServiceNameSuffix(c) ==
    <<"/", "?", "s", "e", "r", "v", "i", "c", "e", "_", "n", "a", "m", "e", "=">> \o c.oracleServiceName[1]

\* C7: an Oracle descriptor with database and oracleServiceName both set fails
\* with the assertion and returns no URI; with only the service name the URI is
\* the shared builder's followed by /?service_name=<name>; with no service name
\* it is the shared builder's.
C7_OracleServiceName ==
    (Loaded /\ given.variant = "OracleConnection") =>
        \A i \in UrlCalls :
            IF Truthy(given.oracleServiceName)
            THEN IF Truthy(given.database)
                 THEN ~urls[i].ok /\ urls[i].exc = "AssertionError" /\ urls[i].url = <<>>
                 ELSE urls[i].ok
                      /\ urls[i].url = get_connection_url_common(given) \o ServiceNameSuffix(given)
            ELSE urls[i].ok /\ urls[i].url = get_connection_url_common(given)

\* An Oracle descriptor with both fields set has been resolved.
C7_Witness ==
    /\ Loaded /\ OracleContractBroken(given)
    /\ Len(urls) >= 1 /\ ~urls[1].ok

Explicit(c) == IF Truthy(c.connectionArguments) THEN c.connectionArguments[1] ELSE <<>>

\* C8 (as claimed): get_connection_args always returns a mapping: the explicit
\* arguments when present, the empty mapping when absent, and for Trino with
\* proxies an http_session entry alongside the explicit arguments.
C8_ArgsAlwaysMapping ==
    Loaded =>
        \A i \in ArgsCalls :
            /\ args[i] # None
            /\ \A k \in 1..Len(Explicit(given)) :
                 Explicit(given)[k].key # http_session =>
                    \E j \in 1..Len(args[i][1]) : args[i][1][j] = Explicit(given)[k]
            /\ IF TrinoWithProxies
               THEN \E j \in 1..Len(args[i][1]) :
                        args[i][1][j].key = http_session /\ args[i][1][j].session > 0
               ELSE args[i][1] = Explicit(given)

\* The text after the first "?" of a URI.
AfterQuery(url) ==
    LET first == CHOOSE i \in 1..Len(url) : url[i] = "?" /\ \A j \in 1..(i - 1) : url[j] # "?"
    IN  SubSeq(url, first + 1, Len(url))

\* C10 (as claimed): every resolved URI has at most one "?" and no path
\* separator after it, whatever optional fields are set.
C10_SingleQueryString ==
    Loaded =>
        \A i \in UrlCalls :
            urls[i].ok =>
                /\ Count(urls[i].url, "?") <= 1
                /\ Count(urls[i].url, "?") = 1 => Count(AfterQuery(urls[i].url), "/") = 0

\* ------------------------------------------------------------------ ast.literal_eval

\* Python values: a str, a list or a tuple (items are values again), or None.
PyStr(text) == [t |-> "str", s |-> text, items |-> <<>>]
PyList(items) == [t |-> "list", s |-> <<>>, items |-> items]
PyTuple(items) == [t |-> "tuple", s |-> <<>>, items |-> items]
PyNone == [t |-> "None", s |-> <<>>, items |-> <<>>]

PyLen(v) == IF v.t = "str" THEN Len(v.s) ELSE Len(v.items)
PyFirst(v) == IF v.t = "str" THEN PyStr(<<v.s[1]>>) ELSE v.items[1]

Parsed(v, next) == [ok |-> TRUE, v |-> v, next |-> next]
NoParse == [ok |-> FALSE, v |-> PyNone, next |-> 0]

Quote == "'"
IsQuote(s, i) == i <= Len(s) /\ s[i] = Quote
IsTriple(s, i) == IsQuote(s, i) /\ IsQuote(s, i + 1) /\ IsQuote(s, i + 2)

\* One string token starting at the quote s[i]: '...' or the triple-quoted form.
StringToken(s, i) ==
    IF IsTriple(s, i)
    THEN LET ends == {j \in (i + 3)..Len(s) : IsTriple(s, j)}
         IN  IF ends = {} THEN NoParse
             ELSE LET j == CHOOSE e \in ends : \A o \in ends : e <= o
                  IN  Parsed(PyStr(SubSeq(s, i + 3, j - 1)), j + 3)
    ELSE LET ends == {j \in (i + 1)..Len(s) : s[j] = Quote}
         IN  IF ends = {} THEN NoParse
             ELSE LET j == CHOOSE e \in ends : \A o \in ends : e <= o
                  IN  Parsed(PyStr(SubSeq(s, i + 1, j - 1)), j + 1)

\* Adjacent string tokens are one str.
RECURSIVE Strings(_, _)
Strings(s, i) ==
    LET tok == StringToken(s, i)
    IN  IF ~tok.ok THEN NoParse
        ELSE IF IsQuote(s, tok.next)
             THEN LET rest == Strings(s, tok.next)
                  IN  IF rest.ok THEN Parsed(PyStr(tok.v.s \o rest.v.s), rest.next) ELSE NoParse
             ELSE tok

\* A value starting at s[i]: a str or a bracketed list.  Any other character
\* is a name, which the grammar or the literal check refuses.
RECURSIVE Value(_, _), Items(_, _, _)
Value(s, i) ==
    IF i > Len(s) THEN NoParse
    ELSE IF s[i] = Quote THEN Strings(s, i)
    ELSE IF s[i] = "[" THEN Items(s, i + 1, <<>>)
    ELSE NoParse

\* The inside of a list from s[i] on, acc being the items read so far.
Items(s, i, acc) ==
    IF i > Len(s) THEN NoParse
    ELSE IF s[i] = "]" THEN Parsed(PyList(acc), i + 1)
    ELSE LET item == Value(s, i)
         IN  IF ~item.ok \/ item.next > Len(s) THEN NoParse
             ELSE IF s[item.next] = "," THEN Items(s, item.next + 1, Append(acc, item.v))
             ELSE IF s[item.next] = "]" THEN Parsed(PyList(Append(acc, item.v)), item.next + 1)
             ELSE NoParse

\* An unparenthesised tuple from s[i] on (after a top-level comma).
RECURSIVE TupleRest(_, _, _)
TupleRest(s, i, acc) ==
    IF i > Len(s) THEN Parsed(PyTuple(acc), i)
    ELSE LET item == Value(s, i)
         IN  IF ~item.ok THEN NoParse
             ELSE IF item.next > Len(s) THEN Parsed(PyTuple(Append(acc, item.v)), item.next)
             ELSE IF s[item.next] = "," THEN TupleRest(s, item.next + 1, Append(acc, item.v))
             ELSE NoParse

\* ast.literal_eval(text): the value, or no parse when it raises (SyntaxError
\* for text that is no expression, ValueError for an expression that is no literal).
literal_eval(s) ==
    LET first == Value(s, 1)
    IN  IF ~first.ok THEN NoParse
        ELSE IF first.next > Len(s) THEN first
        ELSE IF s[first.next] = "," THEN TupleRest(s, first.next + 1, <<first.v>>)
        ELSE NoParse

\* ------------------------------------------------------------------ get_database

\* A raw row: whether it has the database_name key, and the optional text under it.
Row(has, name) == [has |-> has, database_name |-> name]

Returned(v) == [ok |-> TRUE, v |-> v, exc |-> ""]
Threw(exc) == [ok |-> FALSE, v |-> PyNone, exc |-> exc]
\* A result with the dialect adapter that produced it.
By(dialect, r) == [by |-> dialect, ok |-> r.ok, v |-> r.v, exc |-> r.exc]
NotCalled == By("none", Threw("not called"))

default == PyStr(<<"d", "e", "f", "a", "u", "l", "t">>)

\* A slip: line 54 testing len(database_list) >= 1, so that the first of
\* several names is taken.
clickhouse_get_database_first(row) ==
    IF ~row.has THEN Threw("KeyError")
    ELSE IF Truthy(row.database_name)
    THEN LET database_list == literal_eval(row.database_name[1])
         IN  IF ~database_list.ok THEN Threw("ValueError")
             ELSE IF PyLen(database_list.v) >= 1 THEN Returned(PyFirst(database_list.v))
             ELSE Returned(default)
    ELSE Returned(default)

\* ClickhouseUsageSource.get_database
clickhouse_get_database(row) ==
    IF ~row.has THEN Threw("KeyError")
    ELSE IF Truthy(row.database_name)
    THEN LET database_list == literal_eval(row.database_name[1])
         IN  IF ~database_list.ok THEN Threw("ValueError")
             ELSE IF PyLen(database_list.v) = 1 THEN Returned(PyFirst(database_list.v))
             ELSE Returned(default)
    ELSE Returned(default)

PyOpt(o) == IF o = None THEN PyNone ELSE PyStr(o[1])

\* SnowflakeUsageSource.get_database; database is self.connection.database.
snowflake_get_database(row, database) ==
    IF ~row.has THEN Threw("KeyError")
    ELSE IF ~Truthy(row.database_name) /\ Truthy(database) THEN Returned(PyOpt(database))
    ELSE Returned(PyOpt(row.database_name))

\* ------------------------------------------------------------------ row normalisation

RowAlphabet == {"[", "]", Quote, ",", "a"}
\* Longer texts of the shapes the query log produces.
RowSamples == {<<"[", Quote, "a", "c", Quote, "]">>,
               <<"[", Quote, "a", Quote, ",", Quote, "c", Quote, "]">>,
               <<"[", Quote, "a", Quote, ",", Quote, "c", Quote, ",", "]">>,
               <<"[", "[", Quote, "a", Quote, "]", "]">>,
               <<"a", "c", "c", "o", "u", "n", "t", "s">>}
RowTexts == Texts(RowAlphabet, MaxRowLen) \cup RowSamples
\* The usage statements select the database_name column: every row has the key.
Rows == {Row(TRUE, None)} \cup {Row(TRUE, Some(t)) : t \in RowTexts}

RowsInit ==
    /\ data \in Rows
    /\ fallback \in Databases
    /\ picked = NotCalled
    /\ given = NoConn /\ conn = NoConn /\ urls = <<>> /\ args = <<>> /\ heap = 0
    /\ cls = "none" /\ pc = "none" /\ branch = "none"
    /\ start = [conn |-> NoConn, handle |-> 0]
    /\ engine = [id |-> 0] /\ handles = 0
    /\ results = <<>> /\ enumerated = <<>> /\ current = None /\ rows = <<>>
    /\ out = <<>> /\ log = <<>> /\ err = "" /\ runs = 0

\* The engine normalises the row with the Clickhouse adapter.
ClickhouseGetDatabase ==
    /\ picked = NotCalled
    /\ picked' = By("clickhouse", clickhouse_get_database(data))
    /\ UNCHANGED <<data, fallback, rvars, uvars>>

\* The engine normalises the row with the Snowflake adapter.
SnowflakeGetDatabase ==
    /\ picked = NotCalled
    /\ picked' = By("snowflake", snowflake_get_database(data, fallback))
    /\ UNCHANGED <<data, fallback, rvars, uvars>>

RowsNext == ClickhouseGetDatabase \/ SnowflakeGetDatabase

SpecRows == RowsInit /\ [][RowsNext]_vars

\* ------------------------------------------------------------------ usage run

DbPool == <<<<"A">>, <<"B">>, <<"C">>>>
DbNames == {DbPool[i] : i \in 1..Min(MaxDbs, Len(DbPool))}

RECURSIVE SeqsUpTo(_, _)
SeqsUpTo(S, n) ==
    IF n = 0 THEN {<<>>}
    ELSE LET shorter == SeqsUpTo(S, n - 1)
         IN  shorter \cup {Append(q, x) : q \in shorter, x \in S}

Distinct(q) == \A i \in 1..Len(q), j \in 1..Len(q) : q[i] = q[j] => i = j

\* What SHOW DATABASES may return: each logical database once, in any order.
Enumerations == {q \in SeqsUpTo(DbNames, MaxDbs) : Distinct(q)}

\* A slip: the Snowflake check copied into the Clickhouse class unchanged.
ExpectedVariant_copied(c) == "SnowflakeConnection"

ExpectedVariant(c) ==
    IF c = "SnowflakeUsageSource" THEN "SnowflakeConnection" ELSE "ClickhouseConnection"

\* The database_name column of the rows a usage statement may return.
RowNames(c) ==
    IF c = "SnowflakeUsageSource" THEN {None, Some(<<"A">>)}
    ELSE {None, Some(<<"[", Quote, "a", Quote, "]">>), Some(<<"a">>)}
RowSeqs(c) == SeqsUpTo({Row(TRUE, n) : n \in RowNames(c)}, MaxRows)

\* The descriptors a workflow configuration may carry.  A descriptor with no
\* database is drawn with no password, the case in which resolving it rewrites
\* the descriptor.
SourceDescriptors ==
    {[Minimal(v, SchemeOf(v)) EXCEPT !.username = Some(<<"u">>), !.password = p, !.database = d]
        : v \in {"SnowflakeConnection", "ClickhouseConnection"},
          p \in {None, Some(<<"p">>)}, d \in {Some(<<"A">>)}}
    \cup {[Minimal(v, SchemeOf(v)) EXCEPT !.username = Some(<<"u">>)]
        : v \in {"SnowflakeConnection", "ClickhouseConnection"}}

NoEngine == [id |-> 0, url |-> Ok(<<>>), database |-> None]

\* get_connection(connection): a fresh handle on the resolved URI.
get_connection(c, n) == [id |-> n + 1, url |-> get_connection_url(c), database |-> c.database]

Event(op, handle, db, rs) == [op |-> op, handle |-> handle, db |-> db, rows |-> rs]
NoStart == [conn |-> NoConn, handle |-> 0]

\* The record next_record builds from a raw row: the row, the database the
\* dialect's get_database names, and the database of the handle that read it.
get_database(c, row, database) ==
    IF c = "SnowflakeUsageSource" THEN snowflake_get_database(row, database)
    ELSE clickhouse_get_database(row)
Record(row, tag, via) == [raw |-> row, database |-> tag, via |-> via]

\* A slip: the loop body wrapped in a try/except that ends the generator quietly.
Swallowed == "done"

\* Lines 81-92 hold no try/except: an exception of a driver call leaves the
\* generator, which is then finished with that error.
Propagated == "failed"

UsageInit ==
    /\ cls \in {"SnowflakeUsageSource", "ClickhouseUsageSource"}
    /\ conn \in SourceDescriptors
    /\ given = conn
    /\ pc = "new"
    /\ branch = "none"
    /\ start = NoStart
    /\ engine = NoEngine
    /\ handles = 0
    /\ results = <<>>
    /\ enumerated = <<>>
    /\ current = None
    /\ rows = <<>>
    /\ out = <<>>
    /\ log = <<>>
    /\ err = ""
    /\ runs = 0

Others == <<urls, args, heap, dvars>>

\* create(): the descriptor must be of the class's connection variant; the
\* constructor then acquires the first handle.
Create ==
    /\ pc = "new"
    /\ IF conn.variant # ExpectedVariant(cls)
       THEN /\ pc' = "invalid"
            /\ err' = "InvalidSourceException"
            /\ UNCHANGED <<conn, engine, handles>>
       ELSE /\ pc' = "idle"
            /\ engine' = get_connection(conn, handles)
            /\ handles' = handles + 1
            /\ conn' = descriptor_after_url(conn)
            /\ err' = err
    /\ UNCHANGED <<given, cls, branch, start, results, enumerated, current, rows, out, log, runs, Others>>

\* A slip: the test of line 78 reading a field that is never set.
HasDatabase_never(c) == FALSE

\* Line 78: the configured database decides the branch.
HasDatabase(c) == Truthy(c.database)

\* The consumer starts _get_raw_extract_iter.
Invoke ==
    /\ pc \in {"idle", "done"}
    /\ runs < MaxRuns
    /\ runs' = runs + 1
    /\ start' = [conn |-> conn, handle |-> engine.id]
    /\ branch' = IF cls = "SnowflakeUsageSource" /\ ~HasDatabase(conn) THEN "multi" ELSE "base"
    /\ pc' = IF cls = "SnowflakeUsageSource" /\ ~HasDatabase(conn) THEN "show" ELSE "base_stmt"
    /\ out' = <<>> /\ log' = <<>> /\ results' = <<>> /\ enumerated' = <<>>
    /\ rows' = <<>> /\ current' = None
    /\ UNCHANGED <<given, conn, cls, engine, handles, err, Others>>

\* A driver call raises.
Raise(step) ==
    /\ pc' = Propagated
    /\ err' = step

\* UsageSource._get_raw_extract_iter: the usage statement on the held handle.
BaseExecute ==
    /\ pc = "base_stmt"
    /\ \/ \E rs \in RowSeqs(cls) :
            /\ rows' = rs
            /\ log' = Append(log, Event("STMT", engine.id, engine.database, rs))
            /\ pc' = "base_rows"
            /\ err' = err
       \/ Raise("STMT") /\ UNCHANGED <<rows, log>>
    /\ UNCHANGED <<given, conn, cls, branch, start, engine, handles, results, enumerated,
                   current, out, runs, Others>>

\* One row is yielded and next_record normalises it.
YieldOne ==
    LET tag == get_database(cls, Head(rows), conn.database)
    IN  /\ rows # <<>>
        /\ rows' = Tail(rows)
        /\ IF tag.ok
           THEN /\ out' = Append(out, Record(Head(rows), tag.v, engine.database))
                /\ UNCHANGED <<pc, err>>
           ELSE /\ pc' = "failed"
                /\ err' = "NORMALISE"
                /\ out' = out

BaseYield ==
    /\ pc = "base_rows"
    /\ YieldOne
    /\ UNCHANGED <<given, conn, cls, branch, start, engine, handles, results, enumerated,
                   current, log, runs, Others>>

BaseDone ==
    /\ pc = "base_rows"
    /\ rows = <<>>
    /\ pc' = "done"
    /\ UNCHANGED <<given, conn, cls, branch, start, engine, handles, results, enumerated,
                   current, rows, out, log, err, runs, Others>>

\* Lines 81-82.
ShowDatabases ==
    /\ pc = "show"
    /\ \/ \E dbs \in Enumerations :
            /\ results' = dbs
            /\ enumerated' = dbs
            /\ log' = Append(log, Event("SHOW", engine.id, engine.database, <<>>))
            /\ pc' = "next_db"
            /\ err' = err
       \/ Raise("SHOW") /\ UNCHANGED <<results, enumerated, log>>
    /\ UNCHANGED <<given, conn, cls, branch, start, engine, handles, current, rows, out,
                   runs, Others>>

\* Lines 83-84: the next enumerated database, or the end of the generator.
NextDatabase ==
    /\ pc = "next_db"
    /\ IF results = <<>>
       THEN pc' = "done" /\ UNCHANGED <<results, current>>
       ELSE pc' = "use" /\ current' = Some(Head(results)) /\ results' = Tail(results)
    /\ UNCHANGED <<given, conn, cls, branch, start, engine, handles, enumerated, rows, out,
                   log, err, runs, Others>>

\* Lines 85-86.
UseDatabase ==
    /\ pc = "use"
    /\ \/ /\ log' = Append(log, Event("USE", engine.id, current, <<>>))
          /\ pc' = "set"
          /\ err' = err
       \/ Raise("USE") /\ UNCHANGED log
    /\ UNCHANGED <<given, conn, cls, branch, start, engine, handles, results, enumerated,
                   current, rows, out, runs, Others>>

\* A slip: line 88 left out, the descriptor keeps its unset database.
SetDatabase_dropped ==
    /\ pc = "set"
    /\ log' = Append(log, Event("SET", engine.id, current, <<>>))
    /\ pc' = "acquire"
    /\ UNCHANGED <<given, conn, cls, branch, start, engine, handles, results, enumerated,
                   current, rows, out, err, runs, Others>>

\* Line 88.
SetDatabase ==
    /\ pc = "set"
    /\ conn' = [conn EXCEPT !.database = current]
    /\ log' = Append(log, Event("SET", engine.id, current, <<>>))
    /\ pc' = "acquire"
    /\ UNCHANGED <<given, cls, branch, start, engine, handles, results, enumerated, current,
                   rows, out, err, runs, Others>>

\* A slip: line 89 left out, the statement runs on the handle that USE ran on.
Reacquire_stale ==
    /\ pc = "acquire"
    /\ log' = Append(log, Event("ACQUIRE", engine.id, conn.database, <<>>))
    /\ pc' = "stmt"
    /\ UNCHANGED <<given, conn, cls, branch, start, engine, handles, results, enumerated,
                   current, rows, out, err, runs, Others>>

\* Line 89.
Reacquire ==
    /\ pc = "acquire"
    /\ \/ /\ engine' = get_connection(conn, handles)
          /\ handles' = handles + 1
          /\ conn' = descriptor_after_url(conn)
          /\ log' = Append(log, Event("ACQUIRE", handles + 1, conn.database, <<>>))
          /\ pc' = "stmt"
          /\ err' = err
       \/ Raise("ACQUIRE") /\ UNCHANGED <<engine, handles, conn, log>>
    /\ UNCHANGED <<given, cls, branch, start, results, enumerated, current, rows, out, runs,
                   Others>>

\* Line 90.
ExecuteStatement ==
    /\ pc = "stmt"
    /\ \/ \E rs \in RowSeqs(cls) :
            /\ rows' = rs
            /\ log' = Append(log, Event("STMT", engine.id, engine.database, rs))
            /\ pc' = "rows"
            /\ err' = err
       \/ Raise("STMT") /\ UNCHANGED <<rows, log>>
    /\ UNCHANGED <<given, conn, cls, branch, start, engine, handles, results, enumerated,
                   current, out, runs, Others>>

\* Lines 91-92.
YieldRow ==
    /\ pc = "rows"
    /\ YieldOne
    /\ UNCHANGED <<given, conn, cls, branch, start, engine, handles, results, enumerated,
                   current, log, runs, Others>>

\* The inner loop ends and the outer loop goes on.
RowsDone ==
    /\ pc = "rows"
    /\ rows = <<>>
    /\ pc' = "next_db"
    /\ UNCHANGED <<given, conn, cls, branch, start, engine, handles, results, enumerated,
                   current, rows, out, log, err, runs, Others>>

Init ==
    /\ UsageInit
    /\ urls = <<>> /\ args = <<>> /\ heap = 0
    /\ data = Row(FALSE, None) /\ fallback = None /\ picked = NotCalled

Next ==
    \/ Create \/ Invoke
    \/ BaseExecute \/ BaseYield \/ BaseDone
    \/ ShowDatabases \/ NextDatabase \/ UseDatabase \/ SetDatabase \/ Reacquire
    \/ ExecuteStatement \/ YieldRow \/ RowsDone

Spec == Init /\ [][Next]_vars

\* ------------------------------------------------------------------ usage claims

IsPrefix(a, b) == Len(a) <= Len(b) /\ SubSeq(b, 1, Len(a)) = a
IsUse(e) == e.op = "USE"
IsStmt(e) == e.op = "STMT"
Uses == SelectSeq(log, IsUse)
Stmts == SelectSeq(log, IsStmt)
RawRows == [i \in 1..Len(out) |-> out[i].raw]
Fetched == Concat([i \in 1..Len(Stmts) |-> Stmts[i].rows])
Place(db) == CHOOSE i \in 1..Len(enumerated) : Some(enumerated[i]) = db
Enumerated(db) == \E i \in 1..Len(enumerated) : Some(enumerated[i]) = db

SnowflakeRun == cls = "SnowflakeUsageSource" /\ runs >= 1
MultiRun == SnowflakeRun /\ ~Truthy(start.conn.database)

\* C1: in a Snowflake run with no configured database, USE DATABASE is executed
\* once per enumerated database in enumeration order, the rows of an earlier
\* database are all yielded before any row of a later one, and a row that omits
\* its database name is tagged with the database it was read from.
C1_RowsInEnumerationOrder ==
    MultiRun =>
        LET fetched == Fetched
            raw == RawRows
            uses == Uses
        IN  /\ IsPrefix([i \in 1..Len(uses) |-> uses[i].db[1]], enumerated)
            /\ IsPrefix(raw, fetched)
            /\ \A i \in 1..Len(out) :
                 /\ Enumerated(out[i].via)
                 /\ out[i].database =
                      PyStr(IF Truthy(raw[i].database_name) THEN raw[i].database_name[1]
                            ELSE out[i].via[1])
                 /\ i < Len(out) => Place(out[i].via) <= Place(out[i + 1].via)
            /\ pc = "done" =>
                 /\ Len(uses) = Len(enumerated)
                 /\ [i \in 1..Len(Stmts) |-> Stmts[i].db]
                      = [i \in 1..Len(enumerated) |-> Some(enumerated[i])]
                 /\ raw = fetched

\* A drained run over [A, B] that yielded rows of both, the first with no name.
C1_Witness ==
    /\ MultiRun /\ pc = "done"
    /\ enumerated = <<<<"A">>, <<"B">>>>
    /\ Len(Uses) = 2
    /\ Len(out) >= 2
    /\ out[1].via = Some(<<"A">>) /\ out[1].raw.database_name = None
    /\ out[Len(out)].via = Some(<<"B">>) /\ out[Len(out)].database = PyStr(<<"B">>)

\* C2: when the descriptor names a database as the run starts, the usage
\* statement is executed once, on the handle already held, and its rows are
\* yielded as they are; nothing else is executed, no handle is acquired and the
\* descriptor is not changed.
C2_ConfiguredDatabaseRunsOnce ==
    (SnowflakeRun /\ Truthy(start.conn.database)) =>
        /\ Len(log) <= 1
        /\ \A i \in 1..Len(log) : log[i].op = "STMT" /\ log[i].handle = start.handle
        /\ conn = start.conn
        /\ engine.id = start.handle
        /\ IsPrefix(RawRows, Fetched)
        /\ pc = "done" => Len(log) = 1 /\ RawRows = log[1].rows

\* A drained run on a configured database that yielded two rows.
C2_Witness ==
    /\ SnowflakeRun /\ Truthy(start.conn.database)
    /\ pc = "done" /\ Len(out) = 2 /\ Len(log) = 1

DriverSteps == {"SHOW", "USE", "ACQUIRE", "STMT"}

\* C3: in a Snowflake multi-database run a failure of SHOW DATABASES, USE
\* DATABASE, the re-acquisition or the usage statement ends the row sequence
\* with the error: the rows yielded so far stay, no row of the failing database
\* or of a later one is yielded, and the sequence never ends normally afterwards.
C3_FailurePropagates ==
    /\ [](MultiRun /\ err \in DriverSteps =>
            /\ pc = "failed"
            /\ IF err = "SHOW" THEN out = <<>>
               ELSE \A i \in 1..Len(out) :
                        Enumerated(out[i].via) /\ Place(out[i].via) < Place(current))
    /\ [][/\ (MultiRun /\ err \in DriverSteps) => (pc' = "failed" /\ out' = out /\ err' = err)
          /\ (MultiRun /\ runs' = runs) => IsPrefix(out, out')]_vars

\* The re-acquisition for the second database failed after rows of the first
\* had been yielded.
C3_Witness ==
    /\ MultiRun /\ err = "ACQUIRE" /\ pc = "failed"
    /\ Len(enumerated) = 2 /\ current = Some(enumerated[2])
    /\ Len(out) >= 1

\* ------------------------------------------------------------------ row claims

\* C9 (as claimed): whatever the row's database_name field holds, or when it is
\* absent, get_database of either dialect returns a database name and never raises.
C9_GetDatabaseNeverRaises ==
    picked.by # "none" =>
        /\ picked.ok
        /\ \/ picked.v.t = "str"
           \/ picked.v = PyNone /\ ~Truthy(data.database_name) /\ ~Truthy(fallback)

\* The text Clickhouse writes for a list of names: ['x','y'].
RECURSIVE RenderItems(_)
RenderItems(names) ==
    IF names = <<>> THEN <<>>
    ELSE <<Quote>> \o Head(names) \o <<Quote>>
         \o (IF Tail(names) = <<>> THEN <<>> ELSE <<",">> \o RenderItems(Tail(names)))
Render(names) == <<"[">> \o RenderItems(names) \o <<"]">>

NameLists == SeqsUpTo({<<"a">>, <<"c">>, <<"a", "c">>}, 2)

\* C11: the Clickhouse get_database returns the single element of a row text
\* that is a list literal of exactly one element, and the name "default" when
\* the text is a list literal of no or of several elements or when the field is
\* empty or None.
C11_ClickhouseSingleElement ==
    picked.by = "clickhouse" =>
        LET name == data.database_name
            parsed == literal_eval(name[1])
        IN  /\ ~Truthy(name) => picked.ok /\ picked.v = default
            /\ (Truthy(name) /\ parsed.ok /\ parsed.v.t = "list") =>
                   /\ picked.ok
                   /\ picked.v = IF Len(parsed.v.items) = 1 THEN parsed.v.items[1] ELSE default
            /\ \A names \in NameLists :
                   name = Some(Render(names)) =>
                       /\ picked.ok
                       /\ picked.v = IF Len(names) = 1 THEN PyStr(names[1]) ELSE default

\* The row text ['a','c'] was normalised to the default name.
C11_Witness ==
    /\ picked.by = "clickhouse"
    /\ data.database_name = Some(Render(<<<<"a">>, <<"c">>>>))
    /\ picked.ok /\ picked.v = default

\* The row text ['ac'] was normalised to its single element.
C11_SingleWitness ==
    /\ picked.by = "clickhouse"
    /\ data.database_name = Some(Render(<<<<"a", "c">>>>))
    /\ picked.ok /\ picked.v = PyStr(<<"a", "c">>)

\* ------------------------------------------------------------------ construction claims

Created == pc # "new"
Matching ==
    \/ cls = "SnowflakeUsageSource" /\ given.variant = "SnowflakeConnection"
    \/ cls = "ClickhouseUsageSource" /\ given.variant = "ClickhouseConnection"

\* C12: create() raises InvalidSourceException exactly when the descriptor is
\* not of the class's connection variant; then no source exists, no handle has
\* been acquired, no statement has been executed and nothing happens afterwards;
\* when the variant matches, the source is constructed and that error never occurs.
C12_MismatchStopsBeforeStart ==
    /\ [](Created =>
            /\ (pc = "invalid") <=> ~Matching
            /\ ~Matching =>
                 /\ err = "InvalidSourceException"
                 /\ engine = NoEngine /\ handles = 0
                 /\ log = <<>> /\ out = <<>> /\ runs = 0
                 /\ conn = given
            /\ Matching =>
                 /\ err # "InvalidSourceException"
                 /\ pc \in {"idle", "done"} => err = "")
    /\ [][pc = "invalid" => pc' = "invalid" /\ UNCHANGED uvars]_vars

\* create() of the Clickhouse class was handed a Snowflake descriptor and raised.
C12_Witness ==
    /\ pc = "invalid" /\ err = "InvalidSourceException"
    /\ cls = "ClickhouseUsageSource" /\ given.variant = "SnowflakeConnection"

\* ------------------------------------------------------------------ step order claims

\* The driver calls of a multi-database run: SHOW DATABASES first, then four
\* per enumerated database.  DbOf(k) is the place of the database the k-th call
\* belongs to, StepOf(k) the step within it, HeldBefore(j) the handle held as
\* the steps of the j-th database begin.
DbOf(k) == ((k - 2) \div 4) + 1
StepOf(k) == (k - 2) % 4
HeldBefore(j) == IF j = 1 THEN start.handle ELSE log[4 * (j - 1)].handle
EarlierHandles(k) == {start.handle} \cup {log[i].handle : i \in 1..(k - 1)}

\* C13: in a Snowflake multi-database run the calls for each enumerated
\* database are, once each and in this order, USE DATABASE on the handle held,
\* the descriptor's database set to that database, a fresh handle acquired, and
\* the usage statement executed on that fresh handle; a row is yielded only
\* after the usage statement of its database has been executed.
C13_StepsPerDatabase ==
    MultiRun =>
        /\ Len(log) <= 1 + 4 * Len(enumerated)
        /\ \A k \in 1..Len(log) :
             IF k = 1 THEN log[k].op = "SHOW" /\ log[k].handle = start.handle
             ELSE LET e == log[k]
                      j == DbOf(k)
                  IN  /\ e.db = Some(enumerated[j])
                      /\ CASE StepOf(k) = 0 -> e.op = "USE" /\ e.handle = HeldBefore(j)
                            [] StepOf(k) = 1 -> e.op = "SET" /\ e.handle = HeldBefore(j)
                            [] StepOf(k) = 2 -> e.op = "ACQUIRE" /\ e.handle \notin EarlierHandles(k)
                            [] StepOf(k) = 3 ->
                                 /\ e.op = "STMT"
                                 /\ e.handle = log[k - 1].handle
                                 /\ e.handle # HeldBefore(j)
        /\ pc = "acquire" => conn.database = current
        /\ pc \in {"stmt", "rows"} => engine.id = log[Len(log)].handle
        /\ IsPrefix(RawRows, Fetched)
        /\ \A i \in 1..Len(out) :
             \E k \in 1..Len(log) : log[k].op = "STMT" /\ log[k].db = out[i].via
        /\ pc = "done" => Len(log) = 1 + 4 * Len(enumerated)

\* A drained run over two databases: nine driver calls on three handles, with
\* rows yielded.
C13_Witness ==
    /\ MultiRun /\ pc = "done"
    /\ Len(enumerated) = 2 /\ Len(log) = 9
    /\ log[2].handle # log[5].handle /\ log[6].handle = log[5].handle
    /\ log[9].handle # log[5].handle
    /\ out # <<>>

\* ------------------------------------------------------------------ frame claims

\* C14 (as claimed): the descriptor is never changed: after get_connection_url
\* has returned, every field has the value it was loaded with, and after a
\* drained Snowflake run that began with no configured database the database is
\* still unset, so that every later invocation enumerates the databases again.
C14_DescriptorUnchanged ==
    /\ (Loaded /\ UrlCalls # {}) => conn = given
    /\ (SnowflakeRun /\ ~Truthy(given.database)) =>
          /\ branch = "multi"
          /\ pc = "done" => ~Truthy(conn.database)

====
